---------------------------- MODULE Spec2Model ----------------------------
(***************************************************************************)
(* Model of the text scanners of the repository:                           *)
(*   src/src/cleansing/pii_detector.py      PIIDetector                    *)
(*   src/src/analysis/security_analyzer.py  SecurityAnalyzer               *)
(*                                                                         *)
(* A text is a sequence of one-character strings.  Offsets are 0-based as  *)
(* in Python: the slice text[a:b] is SubSeq(text, a + 1, b).               *)
(*                                                                         *)
(* The regular expressions of the source are kept as syntax trees and are  *)
(* run by a backtracking matcher that lists the matches of a pattern at a  *)
(* position in the priority order of Python's re module (greedy            *)
(* quantifiers, left alternative first); the first one is the match.       *)
(***************************************************************************)
EXTENDS Integers, Sequences, FiniteSets, TLC

VARIABLES
    op,            \* the method that was called: "none" before any call
    text,          \* argument text of the call
    mask_char,     \* argument mask_char of mask_pii
    client_name,   \* argument client_name of mask_client_info
    findings,      \* return value of detect_pii
    masked_text,   \* first component of the return value of mask_pii
    masked_items,  \* second component of the return value of mask_pii
    client_out,    \* return value of mask_client_info
    iam,           \* return value of analyze_iam_policy
    fw,            \* return value of analyze_firewall_rules
    ids,           \* return value of analyze_ids_ips_logs
    again_text,    \* first component of mask_pii run on masked_text
    again_items,   \* second component of mask_pii run on masked_text
    request,       \* JSON body of the request to the API
    upload,        \* UPLOAD_FOLDER: the content of each file in it
    writable,      \* whether files can be written to OUTPUT_FOLDER
    output,        \* OUTPUT_FOLDER: the content of each file in it
    calls,         \* the view functions the request has run, in order
    response       \* what the view function of the request returned

\* the state of a second masking run and of the API
remaskVars == <<again_text, again_items>>
apiVars == <<request, upload, writable, output, calls, response>>

vars == <<op, text, mask_char, client_name, findings, masked_text,
          masked_items, client_out, iam, fw, ids, remaskVars, apiVars>>

-----------------------------------------------------------------------------
(* Characters *)

LC == <<"a","b","c","d","e","f","g","h","i","j","k","l","m",
        "n","o","p","q","r","s","t","u","v","w","x","y","z">>
UC == <<"A","B","C","D","E","F","G","H","I","J","K","L","M",
        "N","O","P","Q","R","S","T","U","V","W","X","Y","Z">>

Range(f) == {f[i] : i \in DOMAIN f}

Lowers == Range(LC)
Uppers == Range(UC)
Letters == Lowers \cup Uppers
Digits == {"0","1","2","3","4","5","6","7","8","9"}
\* \w of re for the ASCII range
WordChars == Letters \cup Digits \cup {"_"}
\* \s of re for the ASCII range
Spaces == {" ", "\t", "\n", "\r", "\f"}

\* the characters equal to c when case is ignored (re.IGNORECASE)
Fold(c) ==
    IF c \in Lowers THEN {c, UC[CHOOSE i \in DOMAIN LC : LC[i] = c]}
    ELSE IF c \in Uppers THEN {c, LC[CHOOSE i \in DOMAIN UC : UC[i] = c]}
    ELSE {c}

FoldSet(S) == UNION {Fold(c) : c \in S}

\* str.lower() of one character
LowerChar(c) ==
    IF c \in Uppers THEN LC[CHOOSE i \in DOMAIN UC : UC[i] = c] ELSE c

-----------------------------------------------------------------------------
(* Regular expression syntax trees *)

Unbounded == 0 - 1

CS(S) == [t |-> "set", s |-> S]               \* [...] and one literal
NCS(S) == [t |-> "nset", s |-> S]             \* [^...]
Cat(rs) == [t |-> "cat", a |-> rs]            \* r1 r2 ...
Alt(rs) == [t |-> "alt", a |-> rs]            \* r1 | r2 | ...
Rep(r, lo, hi) == [t |-> "rep", r |-> r, lo |-> lo, hi |-> hi]  \* r{lo,hi}
Plus(r) == Rep(r, 1, Unbounded)               \* r+
Star(r) == Rep(r, 0, Unbounded)               \* r*
Opt(r) == Rep(r, 0, 1)                        \* r?
Grp(r) == [t |-> "grp", r |-> r]              \* ( r ), the capturing group 1
WB == [t |-> "wb"]                            \* \b

Ch(c) == CS({c})
ChI(c) == CS(Fold(c))
\* a literal string, case-sensitive and case-insensitive
Str(cs) == Cat([i \in DOMAIN cs |-> Ch(cs[i])])
StrI(cs) == Cat([i \in DOMAIN cs |-> ChI(cs[i])])

-----------------------------------------------------------------------------
(* The backtracking matcher.  A match state is the offset reached and the  *)
(* span of group 1 (-1, -1 while the group has not taken part).            *)

MState(p, gs, ge) == [p |-> p, gs |-> gs, ge |-> ge]

IsWordAt(s, i) == i >= 1 /\ i <= Len(s) /\ s[i] \in WordChars

\* \b holds at offset p: exactly one of s[p-1], s[p] is a word character
AtBoundary(s, p) == IsWordAt(s, p) # IsWordAt(s, p + 1)

RECURSIVE FlatRange(_, _, _)
\* f[lo] \o ... \o f[hi] for a sequence f of sequences
FlatRange(f, lo, hi) ==
    IF lo > hi THEN <<>>
    ELSE IF lo = hi THEN f[lo]
    ELSE FlatRange(f, lo, (lo + hi) \div 2)
         \o FlatRange(f, (lo + hi) \div 2 + 1, hi)

Flatten(f) == FlatRange(f, 1, Len(f))

SetMin(S) == CHOOSE x \in S : \A y \in S : x <= y

\* r is one character: a class or a negated class
IsCharSet(r) == r.t \in {"set", "nset"}
CharIn(r, c) == IF r.t = "set" THEN c \in r.s ELSE c \notin r.s

\* how many of the characters after offset p, at most cap, are all in r
RunLength(r, s, p, cap) ==
    LET lim == IF cap = Unbounded \/ cap > Len(s) - p THEN Len(s) - p ELSE cap
        bad == {k \in 1..lim : ~CharIn(r, s[p + k])}
    IN  IF bad = {} THEN lim ELSE SetMin(bad) - 1

RECURSIVE M(_, _, _)
RECURSIVE MCat(_, _, _, _)
RECURSIVE MAlt(_, _, _, _)
RECURSIVE MRep(_, _, _, _)
RECURSIVE MRepAll(_, _, _, _)

\* the matches of r from each state of sts, in order
Step(r, s, sts) == Flatten([i \in DOMAIN sts |-> M(r, s, sts[i])])

MCat(rs, k, s, sts) ==
    IF k > Len(rs) \/ sts = <<>> THEN sts
    ELSE MCat(rs, k + 1, s, Step(rs[k], s, sts))

MAlt(rs, k, s, st) ==
    IF k > Len(rs) THEN <<>>
    ELSE M(rs[k], s, st) \o MAlt(rs, k + 1, s, st)

\* greedy repetition: n copies of q.r have matched and have led to st; one
\* more copy is tried first (a copy that matches the empty string ends the
\* repetition), stopping here comes last
MRep(q, s, st, n) ==
    MRepAll(q, s,
            IF q.hi = Unbounded \/ n < q.hi
            THEN SelectSeq(M(q.r, s, st), LAMBDA x : x.p > st.p)
            ELSE <<>>,
            n + 1)
    \o (IF n >= q.lo THEN <<st>> ELSE <<>>)

MRepAll(q, s, sts, n) == Flatten([i \in DOMAIN sts |-> MRep(q, s, sts[i], n)])

\* greedy repetition of one character: the longest run first, then shorter
\* ones down to q.lo characters (what MRep gives for such a q)
MRepChar(q, s, st) ==
    LET run == RunLength(q.r, s, st.p, q.hi)
    IN  [i \in 1..(run - q.lo + 1) |-> MState(st.p + run - i + 1, st.gs, st.ge)]

\* all the ways r matches s from state st, best first
M(r, s, st) ==
    CASE r.t \in {"set", "nset"} ->
            IF st.p < Len(s) /\ CharIn(r, s[st.p + 1])
            THEN <<MState(st.p + 1, st.gs, st.ge)>> ELSE <<>>
      [] r.t = "wb" -> IF AtBoundary(s, st.p) THEN <<st>> ELSE <<>>
      [] r.t = "cat" -> MCat(r.a, 1, s, <<st>>)
      [] r.t = "alt" -> MAlt(r.a, 1, s, st)
      [] r.t = "rep" ->
            IF IsCharSet(r.r) THEN MRepChar(r, s, st) ELSE MRep(r, s, st, 0)
      [] r.t = "grp" ->
            LET inner == M(r.r, s, st)
            IN  [i \in DOMAIN inner |-> MState(inner[i].p, st.p, inner[i].p)]

\* pattern.match at offset p: a sequence holding the match, or empty
MatchAt(r, s, p) ==
    LET all == M(r, s, MState(p, 0 - 1, 0 - 1))
    IN  IF all = <<>> THEN <<>>
        ELSE <<[start |-> p, end |-> all[1].p, gs |-> all[1].gs, ge |-> all[1].ge]>>

\* the match of r at every offset of s that has one
MatchesAnywhere(r, s) == UNION {Range(MatchAt(r, s, p)) : p \in 0..Len(s)}

\* the leftmost of the matches ms that starts at offset p or later
LeftmostFrom(ms, p) ==
    LET later == {m \in ms : m.start >= p}
    IN  IF later = {} THEN <<>>
        ELSE <<CHOOSE m \in later : \A o \in later : m.start <= o.start>>

\* re.search: the leftmost match, or empty
Search(r, s) == LeftmostFrom(MatchesAnywhere(r, s), 0)

RECURSIVE FindIterFrom(_, _)
\* the scan of re.finditer from offset p on: the leftmost match, then the
\* scan from its end (an empty match moves on by one character)
FindIterFrom(ms, p) ==
    LET m == LeftmostFrom(ms, p)
    IN  IF m = <<>> THEN <<>>
        ELSE m \o FindIterFrom(ms,
                 IF m[1].end > m[1].start THEN m[1].end ELSE m[1].end + 1)

\* re.finditer: the non-overlapping matches from left to right
FindIter(r, s) == FindIterFrom(MatchesAnywhere(r, s), 0)

\* text[a:b] for a, b >= 0: Python clips both ends to the length
Slice(s, a, b) ==
    SubSeq(s, (IF a < Len(s) THEN a ELSE Len(s)) + 1,
              IF b < Len(s) THEN b ELSE Len(s))

\* sub in t (str.__contains__)
Contains(t, sub) ==
    \E i \in 0..(Len(t) - Len(sub)) : SubSeq(t, i + 1, i + Len(sub)) = sub

\* str.lower()
Lower(t) == [i \in DOMAIN t |-> LowerChar(t[i])]

\* match.group()
Group0(s, m) == Slice(s, m.start, m.end)
\* match.group(1) if match.lastindex else match.group(0)
Group1(s, m) == IF m.gs >= 0 THEN Slice(s, m.gs, m.ge) ELSE Group0(s, m)

RECURSIVE SubFrom(_, _, _, _, _)
\* the text from offset p on with the matches ms[i..] replaced by repl
SubFrom(ms, repl, s, i, p) ==
    IF i > Len(ms) THEN Slice(s, p, Len(s))
    ELSE Slice(s, p, ms[i].start) \o repl \o SubFrom(ms, repl, s, i + 1, ms[i].end)

\* re.sub(r, repl, s) for a pattern that matches no empty string and a
\* replacement without group references
Sub(r, repl, s) == SubFrom(FindIter(r, s), repl, s, 1, 0)

-----------------------------------------------------------------------------
(* PIIDetector *)

D == CS(Digits)
DashSpace == CS({"-"} \cup Spaces)            \* [-\s]
DashDotSpace == CS({"-", "."} \cup Spaces)    \* [-.\s]

\* self.patterns, compiled with re.IGNORECASE as detect_pii does
EmailPattern ==
    Cat(<<WB,
          Plus(CS(FoldSet(Letters \cup Digits \cup {".", "_", "%", "+", "-"}))),
          Ch("@"),
          Plus(CS(FoldSet(Letters \cup Digits \cup {".", "-"}))),
          Ch("."),
          Rep(CS(FoldSet(Letters \cup {"|"})), 2, Unbounded),
          WB>>)

PhonePattern ==
    Cat(<<WB,
          Opt(Cat(<<Opt(Ch("+")), Ch("1"), Opt(DashDotSpace)>>)),
          Opt(Ch("(")), Rep(D, 3, 3), Opt(Ch(")")), Opt(DashDotSpace),
          Rep(D, 3, 3), Opt(DashDotSpace), Rep(D, 4, 4),
          WB>>)

SsnPattern ==
    Cat(<<WB, Rep(D, 3, 3), Ch("-"), Rep(D, 2, 2), Ch("-"), Rep(D, 4, 4), WB>>)

CreditCardPattern ==
    Cat(<<WB, Rep(D, 4, 4), Opt(DashSpace), Rep(D, 4, 4), Opt(DashSpace),
          Rep(D, 4, 4), Opt(DashSpace), Rep(D, 4, 4), WB>>)

IpAddressPattern ==
    Cat(<<WB, Rep(Cat(<<Rep(D, 1, 3), Ch(".")>>), 3, 3), Rep(D, 1, 3), WB>>)

DatePattern ==
    Cat(<<WB, Rep(D, 1, 2), CS({"-", "/"}), Rep(D, 1, 2), CS({"-", "/"}),
          Rep(D, 2, 4), WB>>)

AddressPattern ==
    Cat(<<WB, Plus(D), Plus(CS(Spaces)),
          Plus(CS(FoldSet(Letters \cup Digits \cup Spaces \cup {","}))),
          Alt(<<StrI(<<"S","t","r","e","e","t">>), StrI(<<"S","t">>),
                StrI(<<"A","v","e","n","u","e">>), StrI(<<"A","v","e">>),
                StrI(<<"R","o","a","d">>), StrI(<<"R","d">>),
                StrI(<<"B","o","u","l","e","v","a","r","d">>),
                StrI(<<"B","l","v","d">>),
                StrI(<<"L","a","n","e">>), StrI(<<"L","n">>),
                StrI(<<"D","r","i","v","e">>), StrI(<<"D","r">>)>>),
          WB>>)

\* the keys of self.patterns in insertion order, and their patterns
PiiTypes ==
    <<"email", "phone", "ssn", "credit_card", "ip_address", "date", "address">>

PiiPatterns ==
    <<EmailPattern, PhonePattern, SsnPattern, CreditCardPattern,
      IpAddressPattern, DatePattern, AddressPattern>>

\* FindingsOf reporting 1-based offsets
FindingsOfOneBased(k, t) ==
    LET ms == FindIter(PiiPatterns[k], t)
    IN  [i \in DOMAIN ms |->
            [type |-> PiiTypes[k], value |-> Group0(t, ms[i]),
             start |-> ms[i].start + 1, end |-> ms[i].end + 1]]

\* the findings the inner loop of detect_pii appends for one pattern
FindingsOf(k, t) ==
    LET ms == FindIter(PiiPatterns[k], t)
    IN  [i \in DOMAIN ms |->
            [type |-> PiiTypes[k], value |-> Group0(t, ms[i]),
             start |-> ms[i].start, end |-> ms[i].end]]

Overlaps(f, g) == f.start < g.end /\ g.start < f.end

RECURSIVE DetectExclusiveFrom(_, _, _)
DetectExclusiveFrom(k, t, acc) ==
    IF k > Len(PiiTypes) THEN acc
    ELSE DetectExclusiveFrom(k + 1, t,
            acc \o SelectSeq(FindingsOf(k, t),
                       LAMBDA f : \A i \in DOMAIN acc : ~Overlaps(acc[i], f)))

\* detect_pii dropping a match that overlaps a finding of an earlier kind
detect_pii_exclusive(t) == DetectExclusiveFrom(1, t, <<>>)

RECURSIVE DetectFrom(_, _)
DetectFrom(k, t) ==
    IF k > Len(PiiTypes) THEN <<>>
    ELSE FindingsOf(k, t) \o DetectFrom(k + 1, t)

\* PIIDetector.detect_pii
detect_pii(t) == DetectFrom(1, t)

\* list.sort(key=start, reverse=True): stable, equal keys keep their order
InsertByStartDesc(sorted, f) ==
    SelectSeq(sorted, LAMBDA x : x.start >= f.start)
    \o <<f>>
    \o SelectSeq(sorted, LAMBDA x : x.start < f.start)

RECURSIVE SortFrom(_, _, _)
SortFrom(fs, sorted, i) ==
    IF i > Len(fs) THEN sorted
    ELSE SortFrom(fs, InsertByStartDesc(sorted, fs[i]), i + 1)

SortByStartDesc(fs) == SortFrom(fs, <<>>, 1)

\* mask_char * n
Repeat(mc, n) ==
    [i \in 1..((IF n > 0 THEN n ELSE 0) * Len(mc)) |-> mc[((i - 1) % Len(mc)) + 1]]

\* value[-3:]
LastThree(v) == SubSeq(v, IF Len(v) > 3 THEN Len(v) - 2 ELSE 1, Len(v))

\* value[-4:]
LastFour(v) == SubSeq(v, IF Len(v) > 4 THEN Len(v) - 3 ELSE 1, Len(v))

\* value.split(c) for a character c: the pieces between the occurrences
Split(v, c) ==
    LET at == {i \in DOMAIN v : v[i] = c}
        cut(k) == IF k = 0 THEN 0
                  ELSE IF k > Cardinality(at) THEN Len(v) + 1
                  ELSE CHOOSE i \in at : Cardinality({j \in at : j < i}) = k - 1
    IN  [k \in 1..(Cardinality(at) + 1) |-> SubSeq(v, cut(k - 1) + 1, cut(k) - 1)]

\* re.sub(r'\D', '', value)
DigitsOnly(v) == SelectSeq(v, LAMBDA c : c \in Digits)

\* EmailMasked masking the local part character by character
EmailMaskedLocalLength(v, mc) ==
    LET parts == Split(v, "@")
    IN  IF Len(parts) = 2
        THEN Repeat(mc, Len(parts[1])) \o <<"@">> \o parts[2]
        ELSE Repeat(mc, Len(v))

\* the email branch of mask_pii
EmailMasked(v, mc) ==
    LET parts == Split(v, "@")
    IN  IF Len(parts) = 2
        THEN Repeat(mc, 5) \o <<"@">> \o parts[2]
        ELSE Repeat(mc, Len(v))

\* the masking strategy of mask_pii for one finding
MaskedValue(f, mc) ==
    LET v == f.value
    IN  IF f.type = "email"
        THEN EmailMasked(v, mc)
        ELSE IF f.type \in {"ssn", "credit_card"}
        THEN Repeat(mc, Len(v) - 4) \o LastFour(v)
        ELSE IF f.type = "phone"
        THEN IF Len(DigitsOnly(v)) >= 4
             THEN Repeat(mc, Len(v) - 4) \o LastFour(v)
             ELSE Repeat(mc, Len(v))
        ELSE Repeat(mc, Len(v))

\* Splice taking the replacement to be as long as what it replaces
SpliceSameLength(t, start, end, mv) ==
    Slice(t, 0, start) \o mv \o Slice(t, start + Len(mv), Len(t))

\* Splice taking end to be the offset of the last character replaced
SpliceInclusiveEnd(t, start, end, mv) ==
    Slice(t, 0, start) \o mv \o Slice(t, end + 1, Len(t))

\* masked_text[:start] + masked_value + masked_text[end:]
Splice(t, start, end, mv) ==
    Slice(t, 0, start) \o mv \o Slice(t, end, Len(t))

RECURSIVE MaskLoopTextKept(_, _, _, _, _)
\* MaskLoop that lists the items and leaves the text as it is
MaskLoopTextKept(fs, mc, i, mt, items) ==
    IF i > Len(fs) THEN [text |-> mt, items |-> items]
    ELSE MaskLoopTextKept(fs, mc, i + 1, mt,
             Append(items, [type |-> fs[i].type, original |-> fs[i].value,
                            masked |-> MaskedValue(fs[i], mc)]))

RECURSIVE MaskLoop(_, _, _, _, _)
\* the for loop of mask_pii from finding i on
MaskLoop(fs, mc, i, mt, items) ==
    IF i > Len(fs) THEN [text |-> mt, items |-> items]
    ELSE LET f == fs[i]
             mv == MaskedValue(f, mc)
         IN  MaskLoop(fs, mc, i + 1, Splice(mt, f.start, f.end, mv),
                      Append(items, [type |-> f.type, original |-> f.value,
                                     masked |-> mv]))

RECURSIVE LStrip(_)
LStrip(t) == IF t # <<>> /\ Head(t) \in Spaces THEN LStrip(Tail(t)) ELSE t

RECURSIVE RStrip(_)
RStrip(t) ==
    IF t # <<>> /\ t[Len(t)] \in Spaces THEN RStrip(SubSeq(t, 1, Len(t) - 1))
    ELSE t

\* str.strip()
Strip(t) == RStrip(LStrip(t))

\* MaskDetected working on the stripped text
MaskDetectedStripped(detected, t, mc) ==
    LET fs == SortByStartDesc(detected)
        r == MaskLoop(fs, mc, 1, Strip(t), <<>>)
    IN  [findings |-> fs, text |-> r.text, items |-> r.items]

\* mask_pii after its call of detect_pii has returned detected: the sorted
\* findings, the masked text and the masked items
MaskDetected(detected, t, mc) ==
    LET fs == SortByStartDesc(detected)
        r == MaskLoop(fs, mc, 1, t, <<>>)
    IN  [findings |-> fs, text |-> r.text, items |-> r.items]

\* PIIDetector.mask_pii
mask_pii(t, mc) == MaskDetected(detect_pii(t), t, mc)

ClientPlaceholder ==
    <<"[","C","L","I","E","N","T","_","N","A","M","E","]">>

OrgPlaceholder ==
    <<"[","O","R","G","A","N","I","Z","A","T","I","O","N","]">>

\* client_terms
ClientTerms ==
    << <<"C","o","m","p","a","n","y">>,
       <<"C","o","r","p","o","r","a","t","i","o","n">>,
       <<"C","o","r","p">>,
       <<"I","n","c">>,
       <<"L","L","C">>,
       <<"L","t","d">> >>

\* re.escape(client_name) matched as it stands, without re.IGNORECASE
ClientNamePatternExact(name) == Str(name)

\* re.escape(client_name) under re.IGNORECASE: the name as a literal
ClientNamePattern(name) == StrI(name)

\* r'\b[A-Z][A-Za-z0-9]+\s+' + term + r'\b', case-sensitive
OrgPattern(term) ==
    Cat(<<WB, CS(Uppers), Plus(CS(Letters \cup Digits)), Plus(CS(Spaces)),
          Str(term), WB>>)

\* the client-name step of mask_client_info; a missing or empty name is <<>>
MaskClientName(t, name) ==
    IF name # <<>> THEN Sub(ClientNamePattern(name), ClientPlaceholder, t)
    ELSE t

RECURSIVE MaskClientTerms(_, _)
\* the loop over client_terms from term i on
MaskClientTerms(t, i) ==
    IF i > Len(ClientTerms) THEN t
    ELSE MaskClientTerms(Sub(OrgPattern(ClientTerms[i]), OrgPlaceholder, t),
                         i + 1)

\* mask_client_info with the two steps the other way round
mask_client_info_terms_first(t, name) ==
    MaskClientName(MaskClientTerms(t, 1), name)

\* PIIDetector.mask_client_info
mask_client_info(t, name) == MaskClientTerms(MaskClientName(t, name), 1)

-----------------------------------------------------------------------------
(* SecurityAnalyzer.analyze_iam_policy *)

Quote == "\""
AnySpaces == Star(CS(Spaces))                  \* \s*

EffectW == <<"E","f","f","e","c","t">>
ActionW == <<"A","c","t","i","o","n">>
ResourceW == <<"R","e","s","o","u","r","c","e">>
StatementW == <<"S","t","a","t","e","m","e","n","t">>
PrincipalW == <<"P","r","i","n","c","i","p","a","l">>
AllowW == <<"A","l","l","o","w">>
DenyW == <<"D","e","n","y">>

\* (?i)"<key>"\s*:\s*"(<value>)"
IamFieldPattern(key, value) ==
    Cat(<<Ch(Quote), StrI(key), Ch(Quote), AnySpaces, Ch(":"), AnySpaces,
          Ch(Quote), Grp(value), Ch(Quote)>>)

NotQuotes == Plus(NCS({Quote}))                \* [^"]+

\* the keys of self.patterns['iam_policy'] in insertion order, their
\* spelling, and their patterns
IamComponents == <<"effect", "action", "resource", "principal">>

IamComponentChars ==
    << <<"e","f","f","e","c","t">>, <<"a","c","t","i","o","n">>,
       <<"r","e","s","o","u","r","c","e">>,
       <<"p","r","i","n","c","i","p","a","l">> >>

IamPatterns ==
    << IamFieldPattern(EffectW, Alt(<<StrI(AllowW), StrI(DenyW)>>)),
       IamFieldPattern(ActionW, NotQuotes),
       IamFieldPattern(ResourceW, NotQuotes),
       IamFieldPattern(PrincipalW, NotQuotes) >>

\* iam_indicators
IamIndicators == <<EffectW, ActionW, ResourceW, StatementW, PrincipalW>>

\* the indicator test made on lower-cased text and words
IamIndicatedAnyCase(t) ==
    \E i \in DOMAIN IamIndicators : Contains(Lower(t), Lower(IamIndicators[i]))

\* any(indicator in text for indicator in iam_indicators)
IamIndicated(t) == \E i \in DOMAIN IamIndicators : Contains(t, IamIndicators[i])

\* re.findall for a pattern with one group: what the group matched
FindAll(r, s) ==
    LET ms == FindIter(r, s)
    IN  [i \in DOMAIN ms |-> Group1(s, ms[i])]

\* the policies list: one entry per component with a match, in table order
IamPolicies(t) ==
    LET found == [k \in DOMAIN IamPatterns |-> FindAll(IamPatterns[k], t)]
        entry(k) == IF found[k] # <<>>
                    THEN <<[component |-> IamComponents[k], values |-> found[k]]>>
                    ELSE <<>>
    IN  Flatten([k \in DOMAIN IamPatterns |-> entry(k)])

\* repr of one character inside a string literal
ReprChar(c) ==
    CASE c = "\\" -> <<"\\", "\\">>
      [] c = "\n" -> <<"\\", "n">>
      [] c = "\t" -> <<"\\", "t">>
      [] c = "\r" -> <<"\\", "r">>
      [] c = "\f" -> <<"\\", "x", "0", "c">>
      [] OTHER -> <<c>>

\* repr of a str without a double quote in it: in single quotes, or in
\* double quotes when it holds a single quote
Repr(v) ==
    LET q == IF \E i \in DOMAIN v : v[i] = "'" THEN Quote ELSE "'"
    IN  <<q>> \o Flatten([i \in DOMAIN v |-> ReprChar(v[i])]) \o <<q>>

\* repr of a list of str
ReprList(vs) ==
    <<"[">>
    \o Flatten([i \in DOMAIN vs |->
                  (IF i > 1 THEN <<",", " ">> ELSE <<>>) \o Repr(vs[i])])
    \o <<"]">>

\* str(p) of an entry p of the policies list
PolicyStr(p) ==
    <<"{","'","c","o","m","p","o","n","e","n","t","'",":"," ">>
    \o Repr(IamComponentChars[CHOOSE k \in DOMAIN IamComponents :
                                  IamComponents[k] = p.component])
    \o <<","," ","'","v","a","l","u","e","s","'",":"," ">>
    \o ReprList(p.values)
    \o <<"}">>

\* any(word in str(p) for p in results['policies'])
AnyPolicyHas(policies, word) ==
    \E i \in DOMAIN policies : Contains(PolicyStr(policies[i]), word)

\* SecurityAnalyzer.analyze_iam_policy; the empty dict is <<>>
analyze_iam_policy(t) ==
    IF ~IamIndicated(t)
    THEN [found |-> FALSE, policies |-> <<>>, summary |-> <<>>]
    ELSE LET policies == IamPolicies(t)
         IN  [found |-> TRUE,
              policies |-> policies,
              summary |->
                 [total_components_found |-> Len(policies),
                  has_allow_effect |-> AnyPolicyHas(policies, AllowW),
                  has_deny_effect |-> AnyPolicyHas(policies, DenyW)]]

-----------------------------------------------------------------------------
(* SecurityAnalyzer.analyze_firewall_rules and analyze_ids_ips_logs *)

\* w1|w2|... under (?i)
AnyWordI(ws) == Alt([i \in DOMAIN ws |-> StrI(ws[i])])

\* \d{1,3}\.\d{1,3}\.\d{1,3}\.\d{1,3}
DottedQuad ==
    Cat(<<Rep(D, 1, 3), Ch("."), Rep(D, 1, 3), Ch("."), Rep(D, 1, 3), Ch("."),
          Rep(D, 1, 3)>>)

\* (\d{1,3}\.\d{1,3}\.\d{1,3}\.\d{1,3}(?:/\d{1,2})?)
DottedQuadPrefix == Grp(Cat(<<DottedQuad, Opt(Cat(<<Ch("/"), Rep(D, 1, 2)>>))>>))

AllowL == <<"a","l","l","o","w">>
AcceptL == <<"a","c","c","e","p","t">>
DenyL == <<"d","e","n","y">>
DropL == <<"d","r","o","p">>
RejectL == <<"r","e","j","e","c","t">>

\* the keys of self.patterns['firewall_rule'] in insertion order
FirewallComponents ==
    <<"rule_number", "action", "protocol", "port", "source_ip", "dest_ip">>

\* (?i)(allow|deny|drop|reject|accept)
FirewallActionPattern == Grp(AnyWordI(<<AllowL, DenyL, DropL, RejectL, AcceptL>>))

\* (?i)(tcp|udp|icmp|ip|any)
FirewallProtocolPattern ==
    Grp(AnyWordI(<<<<"t","c","p">>, <<"u","d","p">>, <<"i","c","m","p">>, <<"i","p">>, <<"a","n","y">>>>))

\* the patterns of self.patterns['firewall_rule'], in the order of the keys
FirewallPatterns ==
    << \* (?i)rule\s+#?(\d+)
       Cat(<<StrI(<<"r","u","l","e">>), Plus(CS(Spaces)), Opt(Ch("#")), Grp(Plus(D))>>),
       FirewallActionPattern,
       FirewallProtocolPattern,
       \* (?i)port[s]?\s+(\d+(?:-\d+)?)
       Cat(<<StrI(<<"p","o","r","t">>), Opt(ChI("s")), Plus(CS(Spaces)),
             Grp(Cat(<<Plus(D), Opt(Cat(<<Ch("-"), Plus(D)>>))>>))>>),
       \* (?i)(?:source|src|from)\s+(...)
       Cat(<<AnyWordI(<<<<"s","o","u","r","c","e">>, <<"s","r","c">>, <<"f","r","o","m">>>>), Plus(CS(Spaces)),
             DottedQuadPrefix>>),
       \* (?i)(?:destination|dest|dst|to)\s+(...)
       Cat(<<AnyWordI(<<<<"d","e","s","t","i","n","a","t","i","o","n">>, <<"d","e","s","t">>, <<"d","s","t">>, <<"t","o">>>>),
             Plus(CS(Spaces)), DottedQuadPrefix>>) >>

\* firewall_indicators
FirewallIndicators ==
    <<<<"r","u","l","e">>, <<"f","i","r","e","w","a","l","l">>, AllowL, DenyL, <<"p","o","r","t">>, <<"p","r","o","t","o","c","o","l">>>>

\* any(indicator.lower() in text.lower() for indicator in indicators)
IndicatedLower(indicators, t) ==
    \E i \in DOMAIN indicators : Contains(Lower(t), Lower(indicators[i]))

\* the dict built for one line: line_number, content, and one key for each
\* component whose pattern re.search finds in the line, holding
\* match.group(1) if match.lastindex else match.group(0)
LineData(components, patterns, line_num, line) ==
    LET ms == [k \in DOMAIN patterns |-> Search(patterns[k], line)]
        matched == {components[k] : k \in {j \in DOMAIN patterns : ms[j] # <<>>}}
    IN  [key \in {"line_number", "content"} \cup matched |->
            IF key = "line_number" THEN line_num
            ELSE IF key = "content" THEN Strip(line)
            ELSE Group1(line, ms[CHOOSE k \in DOMAIN components :
                                    components[k] = key][1])]

\* LinesWithData numbering the lines from 0
LinesWithDataFromZero(components, patterns, t) ==
    LET lines == Split(t, "\n")
        data == [n \in DOMAIN lines |->
                    LineData(components, patterns, n - 1, lines[n])]
    IN  SelectSeq(data, LAMBDA d : Cardinality(DOMAIN d) > 2)

\* LinesWithData with a dict that keeps the components of the line before
LinesWithDataCarried(components, patterns, t) ==
    LET lines == Split(t, "\n")
        own == [n \in DOMAIN lines |->
                   LineData(components, patterns, n, lines[n])]
        data == [n \in DOMAIN lines |->
                    IF n = 1 THEN own[1]
                    ELSE [key \in DOMAIN own[n] \cup DOMAIN own[n - 1] |->
                             IF key \in DOMAIN own[n] THEN own[n][key]
                             ELSE own[n - 1][key]]]
    IN  SelectSeq(data, LAMBDA d : Cardinality(DOMAIN d) > 2)

\* the dicts of the lines of text.split('\n') that pass len(data) > 2
LinesWithData(components, patterns, t) ==
    LET lines == Split(t, "\n")
        data == [n \in DOMAIN lines |->
                    LineData(components, patterns, n, lines[n])]
    IN  SelectSeq(data, LAMBDA d : Cardinality(DOMAIN d) > 2)

\* results['rules'] after the loop over the lines
FirewallRules(t) == LinesWithData(FirewallComponents, FirewallPatterns, t)

\* d.get(key, default)
Get(d, key, default) == IF key \in DOMAIN d THEN d[key] ELSE default

\* set(r.get('protocol', '').lower() for r in rules if r.get('protocol'))
ProtocolsUsed(rules) ==
    {Lower(Get(rules[i], "protocol", <<>>)) :
        i \in {j \in DOMAIN rules : Get(rules[j], "protocol", <<>>) # <<>>}}

RECURSIVE Orderings(_)
\* the lists list(S) can be for a set S of str: the iteration order of a set
\* of strings is not fixed by the program
Orderings(S) ==
    IF S = {} THEN {<<>>}
    ELSE UNION {{<<x>> \o s : s \in Orderings(S \ {x})} : x \in S}

\* CountAction comparing the action as it was written
CountActionExact(rules, words) ==
    Len(SelectSeq(rules, LAMBDA r : Get(r, "action", <<>>) \in words))

\* sum(1 for r in rules if r.get('action', '').lower() in words)
CountAction(rules, words) ==
    Len(SelectSeq(rules, LAMBDA r : Lower(Get(r, "action", <<>>)) \in words))

\* FirewallSummary counting only deny as a denying action
FirewallSummaryDenyOnly(rules, protocols) ==
    [total_rules |-> Len(rules),
     allow_rules |-> Len(SelectSeq(rules, LAMBDA r :
                        Lower(Get(r, "action", <<>>)) \in {AllowL, AcceptL})),
     deny_rules |-> Len(SelectSeq(rules, LAMBDA r :
                        Lower(Get(r, "action", <<>>)) = DenyL)),
     protocols_used |-> protocols]

\* the summary dict of analyze_firewall_rules, with protocols_used in the
\* order given
FirewallSummary(rules, protocols) ==
    [total_rules |-> Len(rules),
     allow_rules |-> CountAction(rules, {AllowL, AcceptL}),
     deny_rules |-> CountAction(rules, {DenyL, DropL, RejectL}),
     protocols_used |-> protocols]

\* SecurityAnalyzer.analyze_firewall_rules: the results the call can return,
\* one for each order of protocols_used; the empty dict is <<>>
analyze_firewall_rules(t) ==
    IF ~IndicatedLower(FirewallIndicators, t)
    THEN {[found |-> FALSE, rules |-> <<>>, summary |-> <<>>]}
    ELSE LET rules == FirewallRules(t)
         IN  IF rules = <<>>
             THEN {[found |-> TRUE, rules |-> <<>>, summary |-> <<>>]}
             ELSE {[found |-> TRUE, rules |-> rules,
                    summary |-> FirewallSummary(rules, protocols)] :
                      protocols \in Orderings(ProtocolsUsed(rules))}

\* the keys of self.patterns['ids_ips_log'] in insertion order
IdsComponents ==
    <<"timestamp", "severity", "alert_type", "signature", "source_ip", "dest_ip">>

ColonSpaces == Plus(CS({":"} \cup Spaces))      \* [:\s]+

\* the patterns of self.patterns['ids_ips_log'], in the order of the keys
IdsPatterns ==
    << \* \d{4}-\d{2}-\d{2}\s+\d{2}:\d{2}:\d{2}
       Cat(<<Rep(D, 4, 4), Ch("-"), Rep(D, 2, 2), Ch("-"), Rep(D, 2, 2),
             Plus(CS(Spaces)), Rep(D, 2, 2), Ch(":"), Rep(D, 2, 2), Ch(":"),
             Rep(D, 2, 2)>>),
       \* (?i)(critical|high|medium|low|info)
       Grp(AnyWordI(<<<<"c","r","i","t","i","c","a","l">>, <<"h","i","g","h">>, <<"m","e","d","i","u","m">>, <<"l","o","w">>, <<"i","n","f","o">>>>)),
       \* (?i)(alert|drop|pass|log)
       Grp(AnyWordI(<<<<"a","l","e","r","t">>, DropL, <<"p","a","s","s">>, <<"l","o","g">>>>)),
       \* (?i)signature[:\s]+([^\n]+)
       Cat(<<StrI(<<"s","i","g","n","a","t","u","r","e">>), ColonSpaces, Grp(Plus(NCS({"\n"})))>>),
       \* (?i)(?:src|source)[:\s]+(\d{1,3}\.\d{1,3}\.\d{1,3}\.\d{1,3})
       Cat(<<AnyWordI(<<<<"s","r","c">>, <<"s","o","u","r","c","e">>>>), ColonSpaces, Grp(DottedQuad)>>),
       \* (?i)(?:dst|dest|destination)[:\s]+(\d{1,3}\.\d{1,3}\.\d{1,3}\.\d{1,3})
       Cat(<<AnyWordI(<<<<"d","s","t">>, <<"d","e","s","t">>, <<"d","e","s","t","i","n","a","t","i","o","n">>>>), ColonSpaces,
             Grp(DottedQuad)>>) >>

\* ids_indicators
IdsIndicators ==
    <<<<"a","l","e","r","t">>, <<"s","i","g","n","a","t","u","r","e">>, <<"s","n","o","r","t">>, <<"s","u","r","i","c","a","t","a">>, <<"i","n","t","r","u","s","i","o","n">>>>

\* results['alerts'] after the loop over the lines
IdsAlerts(t) == LinesWithData(IdsComponents, IdsPatterns, t)

\* Severities as they were written
SeveritiesExact(alerts) ==
    LET with == SelectSeq(alerts, LAMBDA a : Get(a, "severity", <<>>) # <<>>)
    IN  [i \in DOMAIN with |-> with[i].severity]

\* [a.get('severity', '').lower() for a in alerts if a.get('severity')]
Severities(alerts) ==
    LET with == SelectSeq(alerts, LAMBDA a : Get(a, "severity", <<>>) # <<>>)
    IN  [i \in DOMAIN with |-> Lower(with[i].severity)]

\* severities.count(word)
CountOf(seq, word) == Cardinality({i \in DOMAIN seq : seq[i] = word})

\* len(set(a.get(key) for a in alerts if a.get(key)))
UniqueCount(alerts, key) ==
    Cardinality({Get(alerts[i], key, <<>>) :
                    i \in {j \in DOMAIN alerts : Get(alerts[j], key, <<>>) # <<>>}})

\* the summary dict of analyze_ids_ips_logs
IdsSummary(alerts) ==
    LET severities == Severities(alerts)
    IN  [total_alerts |-> Len(alerts),
         severity_breakdown |->
            [critical |-> CountOf(severities, <<"c","r","i","t","i","c","a","l">>),
             high |-> CountOf(severities, <<"h","i","g","h">>),
             medium |-> CountOf(severities, <<"m","e","d","i","u","m">>),
             low |-> CountOf(severities, <<"l","o","w">>)],
         unique_sources |-> UniqueCount(alerts, "source_ip"),
         unique_destinations |-> UniqueCount(alerts, "dest_ip")]

\* analyze_ids_ips_logs scanning the lines whether or not an indicator is
\* in the text
analyze_ids_ips_logs_ungated(t) ==
    LET alerts == IdsAlerts(t)
    IN  [found |-> IndicatedLower(IdsIndicators, t), alerts |-> alerts,
         summary |-> IF alerts # <<>> THEN IdsSummary(alerts) ELSE <<>>]

\* SecurityAnalyzer.analyze_ids_ips_logs; the empty dict is <<>>
analyze_ids_ips_logs(t) ==
    IF ~IndicatedLower(IdsIndicators, t)
    THEN [found |-> FALSE, alerts |-> <<>>, summary |-> <<>>]
    ELSE LET alerts == IdsAlerts(t)
         IN  [found |-> TRUE, alerts |-> alerts,
              summary |-> IF alerts # <<>> THEN IdsSummary(alerts) ELSE <<>>]

-----------------------------------------------------------------------------
(* Inputs: a text is a concatenation of at most MaxFrags fragments *)

MaxFrags == 3

RECURSIVE Concat(_)
\* the concatenation of a sequence of texts
Concat(ts) == IF ts = <<>> THEN <<>> ELSE Head(ts) \o Concat(Tail(ts))

RECURSIVE Tuples(_, _)
\* the sequences of exactly n elements of S
Tuples(S, n) ==
    IF n = 0 THEN {<<>>}
    ELSE {Append(t, x) : t \in Tuples(S, n - 1), x \in S}

TextsOf(Frags, n) == {Concat(t) : t \in UNION {Tuples(Frags, k) : k \in 0..n}}

\* glue characters, e-mail tails (one with an IP-shaped domain) and one value
\* of each numeric kind; "Main st" ends an address after digits and a space
PiiFrags ==
    { <<" ">>, <<"a">>,
      <<"@","b",".","c","c">>,
      <<"@","1",".","2",".","3",".","4",".","c","c">>,
      <<"1","2","3","-","4","5","-","6","7","8","9">>,
      <<"5","5","5"," ","1","2","3"," ","4","5","6","7">>,
      <<"4","5","3","2","-","1","2","3","4","-","5","6","7","8","-","9","0","1","0">>,
      <<"1","/","2","/","3","4">>,
      <<"M","a","i","n"," ","s","t">> }

PiiTexts == TextsOf(PiiFrags, MaxFrags)

MaskChars == {<<"*">>, <<"#">>}

NoResult == <<>>

\* no method has been called
InitResults ==
    /\ op = "none"
    /\ mask_char = NoResult
    /\ client_name = NoResult
    /\ findings = NoResult
    /\ masked_text = NoResult
    /\ masked_items = NoResult
    /\ client_out = NoResult
    /\ iam = NoResult
    /\ fw = NoResult
    /\ ids = NoResult
    /\ again_text = NoResult
    /\ again_items = NoResult

\* no request has been made to the API
InitNoRequest ==
    /\ request = NoResult
    /\ upload = NoResult
    /\ writable = TRUE
    /\ output = NoResult
    /\ calls = <<>>
    /\ response = NoResult

InitCommon == InitResults /\ InitNoRequest

InitPii == text \in PiiTexts /\ InitCommon

\* a call of detect_pii(text)
DetectPii ==
    /\ op = "none"
    /\ op' = "detect_pii"
    /\ findings' = detect_pii(text)
    /\ UNCHANGED <<text, mask_char, client_name, masked_text, masked_items,
                   client_out, iam, fw, ids,
                   remaskVars, apiVars>>

\* a call of mask_pii(text, mask_char)
MaskPii ==
    /\ op = "none"
    /\ \E detected \in {detect_pii(text)} : \E mc \in MaskChars :
       \E r \in {MaskDetected(detected, text, mc)} :
          /\ mask_char' = mc
          /\ findings' = r.findings
          /\ masked_text' = r.text
          /\ masked_items' = r.items
    /\ op' = "mask_pii"
    /\ UNCHANGED <<text, client_name, client_out, iam, fw, ids,
                   remaskVars, apiVars>>

NextPii == DetectPii \/ MaskPii

SpecPii == InitPii /\ [][NextPii]_vars

-----------------------------------------------------------------------------
(* Properties of detect_pii and mask_pii, checked under SpecPii *)

\* position of a kind in the pattern table
KindIndex(type) == CHOOSE k \in DOMAIN PiiTypes : PiiTypes[k] = type

RECURSIVE Rebuild(_, _, _, _)
\* the source text with the masked values of items i.. put at the offsets
\* of their findings, in list order
Rebuild(t, fs, items, i) ==
    IF i > Len(items) THEN t
    ELSE Rebuild(SubSeq(t, 1, fs[i].start) \o items[i].masked
                    \o SubSeq(t, IF fs[i].end < Len(t) THEN fs[i].end + 1
                                 ELSE Len(t) + 1, Len(t)),
                 fs, items, i + 1)

\* C1: after mask_pii, the masked items pair one to one with the findings
\* taken highest start offset first, and putting every item's masked value at
\* its finding's [start, end) in the unmodified text, in that order,
\* gives exactly the returned masked text.
C1_PositionConsistent ==
    op = "mask_pii" =>
        /\ Len(masked_items) = Len(findings)
        /\ \A i \in DOMAIN findings :
              /\ masked_items[i].type = findings[i].type
              /\ masked_items[i].original = findings[i].value
              /\ findings[i].value
                    = SubSeq(text, findings[i].start + 1, findings[i].end)
        /\ \A i, j \in DOMAIN findings :
              i < j => findings[i].start >= findings[j].start
        /\ Rebuild(text, findings, masked_items, 1) = masked_text

\* C1 witness: mask_pii has run on overlapping findings, one of which got a
\* replacement of another length.
C1_Witness ==
    /\ op = "mask_pii"
    /\ \E i, j \in DOMAIN findings :
          /\ i # j
          /\ Overlaps(findings[i], findings[j])
          /\ Len(masked_items[i].masked) # Len(masked_items[i].original)

\* the kinds that keep their last four characters
KeepsLastFour(item) ==
    \/ item.type \in {"ssn", "credit_card"}
    \/ item.type = "phone"
       /\ Cardinality({k \in DOMAIN item.original :
                          item.original[k] \in Digits}) >= 4

\* C2: a masked item of kind ssn, credit_card or phone (with at least four
\* digits) has a masked value as long as the original, ending in the
\* original's last four characters, and made of mask characters before them.
C2_LastFourKept ==
    op = "mask_pii" =>
        \A i \in DOMAIN masked_items :
            LET o == masked_items[i].original
                m == masked_items[i].masked
            IN  KeepsLastFour(masked_items[i]) =>
                   /\ Len(m) = Len(o)
                   /\ Len(o) >= 4
                   /\ \A k \in DOMAIN m :
                         m[k] = IF k > Len(o) - 4 THEN o[k] ELSE mask_char[1]

\* C2 witness: mask_pii has masked an ssn and a phone number of one text.
C2_Witness ==
    /\ op = "mask_pii"
    /\ \E i, j \in DOMAIN masked_items :
          /\ masked_items[i].type = "ssn"
          /\ masked_items[j].type = "phone"
          /\ masked_items[i].masked # masked_items[i].original

\* C3: a masked item of kind email is five mask characters, then the
\* original from its only "@" on; the original holds exactly one "@", so
\* the fully masked fallback is not taken.
C3_EmailMasked ==
    op = "mask_pii" =>
        \A i \in DOMAIN masked_items :
            LET o == masked_items[i].original
                m == masked_items[i].masked
                ats == {k \in DOMAIN o : o[k] = "@"}
            IN  masked_items[i].type = "email" =>
                   /\ Cardinality(ats) = 1
                   /\ \A k \in ats :
                         /\ Len(m) = 5 + Len(o) - k + 1
                         /\ \A n \in 1..5 : m[n] = mask_char[1]
                         /\ \A n \in k..Len(o) : m[5 + n - k + 1] = o[n]

\* C3 witness: mask_pii has masked an e-mail address whose local part is
\* longer than five characters.
C3_Witness ==
    /\ op = "mask_pii"
    /\ \E i \in DOMAIN masked_items :
          /\ masked_items[i].type = "email"
          /\ \E k \in DOMAIN masked_items[i].original :
                k > 6 /\ masked_items[i].original[k] = "@"

\* C4: every finding of detect_pii has 0 <= start < end <= len(text) and
\* its value is text[start:end].
C4_OffsetsInText ==
    op = "detect_pii" =>
        \A i \in DOMAIN findings :
            /\ 0 <= findings[i].start
            /\ findings[i].start < findings[i].end
            /\ findings[i].end <= Len(text)
            /\ findings[i].value
                  = [k \in 1..(findings[i].end - findings[i].start)
                        |-> text[findings[i].start + k]]

\* C4 witness: detect_pii has returned a finding that starts after offset 0
\* and ends before the end of the text.
C4_Witness ==
    /\ op = "detect_pii"
    /\ \E i \in DOMAIN findings :
          findings[i].start > 0 /\ findings[i].end < Len(text)

\* C5: the findings of detect_pii come in pattern table order and, within
\* one kind, from left to right; and every offset at which a pattern
\* matches is the start of a finding of that kind or lies inside one, so a
\* match is reported whatever the findings of the other kinds cover.
C5_TableOrderAllMatches ==
    op = "detect_pii" =>
        /\ \A i, j \in DOMAIN findings :
              i < j =>
                 \/ KindIndex(findings[i].type) < KindIndex(findings[j].type)
                 \/ /\ findings[i].type = findings[j].type
                    /\ findings[i].start < findings[j].start
        /\ \A k \in DOMAIN PiiTypes : \A p \in 0..Len(text) :
              \A m \in Range(MatchAt(PiiPatterns[k], text, p)) :
                 \E i \in DOMAIN findings :
                    /\ findings[i].type = PiiTypes[k]
                    /\ \/ findings[i].start = p /\ findings[i].end = m.end
                       \/ findings[i].start < p /\ p < findings[i].end

\* C5 witness: detect_pii has returned two findings of one kind and a
\* finding of another kind that overlaps one of them.
C5_Witness ==
    /\ op = "detect_pii"
    /\ \E i, j, k \in DOMAIN findings :
          /\ i < j
          /\ findings[i].type = findings[j].type
          /\ findings[k].type # findings[i].type
          /\ Overlaps(findings[k], findings[i])

\* C6: when mask_pii is given the empty string, or a text in which its call
\* of detect_pii found nothing, it returns the text as it was and no items.
C6_NothingToMask ==
    op = "mask_pii" /\ (text = <<>> \/ findings = <<>>) =>
        /\ findings = <<>>
        /\ masked_text = text
        /\ masked_items = <<>>

\* C6 witness: mask_pii has run on a text of several characters, white
\* space at its ends, in which nothing was found.
C6_Witness ==
    /\ op = "mask_pii"
    /\ Len(text) > 1
    /\ text[1] \in Spaces
    /\ findings = <<>>

\* the kinds that mask_pii masks in full
FullyMaskedKinds == {"ip_address", "date", "address"}

\* C17 as claimed: after mask_pii, the masked text holds no occurrence of
\* the matched text of any finding of kind ip_address, date or address,
\* whether or not the finding's span overlaps another finding's.
C17_OriginalGone ==
    op = "mask_pii" =>
        \A i \in DOMAIN findings :
           findings[i].type \in FullyMaskedKinds
              => ~Contains(masked_text, findings[i].value)

\* the offsets of t that are in the span of no finding of fs
Outside(t, fs) ==
    {p \in 0..(Len(t) - 1) :
        \A i \in DOMAIN fs : p < fs[i].start \/ p >= fs[i].end}

\* C18: when mask_pii has no finding of kind email, the masked text is as
\* long as the text and has the text's character at every offset that is in
\* no finding's span, also when spans overlap.
C18_OnlySpansChange ==
    op = "mask_pii" /\ (\A i \in DOMAIN findings : findings[i].type # "email") =>
        /\ Len(masked_text) = Len(text)
        /\ \A p \in Outside(text, findings) : masked_text[p + 1] = text[p + 1]

\* C18 witness: mask_pii has masked two findings whose spans overlap, none
\* of kind email, in a text that has a character outside every span.
C18_Witness ==
    /\ op = "mask_pii"
    /\ \A i \in DOMAIN findings : findings[i].type # "email"
    /\ \E i, j \in DOMAIN findings : i # j /\ Overlaps(findings[i], findings[j])
    /\ Outside(text, findings) # {}
    /\ masked_text # text

-----------------------------------------------------------------------------
(* mask_pii run on its own result *)

\* the default of the parameter mask_char
DefaultMaskChar == <<"*">>

\* glue characters, an e-mail tail, an address, a card number and a tail
\* that makes a card number with its last four digits, a date, the end of
\* an address
RemaskFrags ==
    { <<" ">>, <<"a">>, <<"@","b",".","c","c">>, <<"1",".","2",".","3",".","4">>, <<"4","5","3","2","-","1","2","3","4","-","5","6","7","8","-","9","0","1","0">>,
      <<"-","1","2","3","4","-","5","6","7","8","-","9","0","1","2">>, <<"1","/","2","/","3","4">>, <<"M","a","i","n"," ","s","t">> }

RemaskTexts == TextsOf(RemaskFrags, MaxFrags)

InitRemask == text \in RemaskTexts /\ InitCommon

\* a call of mask_pii(masked_text) on the text a call of mask_pii(text)
\* has returned
MaskPiiAgain ==
    /\ op = "mask_pii"
    /\ mask_char = DefaultMaskChar
    /\ \E r \in {mask_pii(masked_text, DefaultMaskChar)} :
          /\ again_text' = r.text
          /\ again_items' = r.items
    /\ op' = "mask_pii_again"
    /\ UNCHANGED <<text, mask_char, client_name, findings, masked_text,
                   masked_items, client_out, iam, fw, ids, apiVars>>

NextRemask == MaskPii \/ MaskPiiAgain

SpecRemask == InitRemask /\ [][NextRemask]_vars

-----------------------------------------------------------------------------
(* mask_client_info: inputs and specification *)

AcmeW == <<"A","c","m","e">>
CorporationW == <<"C","o","r","p","o","r","a","t","i","o","n">>
CorpW == <<"C","o","r","p">>
IonW == <<"I","O","N">>

\* "Acme Corporation and Acme Corp."
AcmeText ==
    Concat(<<AcmeW, <<" ">>, CorporationW, <<" ","a","n","d"," ">>,
             AcmeW, <<" ">>, CorpW, <<".">>>>)

\* the text of test_client_masking
TestClientText ==
    Concat(<<<<"T","h","i","s"," ","d","o","c","u","m","e","n","t"," ",
               "i","s"," ","f","o","r"," ">>,
             AcmeW, <<" ">>, CorporationW,
             <<" ","a","n","d"," ","w","a","s"," ","p","r","e","p","a","r",
               "e","d"," ","b","y"," ">>,
             AcmeW, <<" ">>, CorpW, <<".">>>>)

ClientFrags ==
    { AcmeW, <<"a","c","m","e">>, <<" ">>, <<".">>, <<"F","o","o">>,
      CorpW, CorporationW, <<"I","n","c">> }

ClientTexts == TextsOf(ClientFrags, MaxFrags) \cup {AcmeText, TestClientText}

\* <<>> is a call without a client name
ClientNames == {<<>>, AcmeW, CorpW, IonW}

InitClient == text \in ClientTexts /\ InitCommon

\* a call of mask_client_info(text, client_name)
MaskClientInfo ==
    /\ op = "none"
    /\ \E name \in ClientNames :
          /\ client_name' = name
          /\ client_out' = mask_client_info(text, name)
    /\ op' = "mask_client_info"
    /\ UNCHANGED <<text, mask_char, findings, masked_text, masked_items, iam,
                   fw, ids,
                   remaskVars, apiVars>>

NextClient == MaskClientInfo

SpecClient == InitClient /\ [][NextClient]_vars

-----------------------------------------------------------------------------
(* Properties of mask_client_info, checked under SpecClient *)

\* C7 as claimed: on "Acme Corporation and Acme Corp." with client name
\* Acme, every occurrence of Acme becomes [CLIENT_NAME] and the result also
\* holds the [ORGANIZATION] placeholder.
C7_OrgPlaceholderInResult ==
    op = "mask_client_info" /\ text = AcmeText /\ client_name = AcmeW =>
        /\ ~Contains(Lower(client_out), Lower(AcmeW))
        /\ Contains(client_out, ClientPlaceholder)
        /\ Contains(client_out, OrgPlaceholder)

\* C7 amended: on that input the client-name substitution runs first, and
\* the organization substitution then finds no capitalized word before
\* Corporation or Corp: the result is
\* "[CLIENT_NAME] Corporation and [CLIENT_NAME] Corp." and holds no
\* [ORGANIZATION] placeholder.
C7_ClientNameFirstNoOrg ==
    op = "mask_client_info" /\ text = AcmeText /\ client_name = AcmeW =>
        /\ client_out
              = Concat(<<ClientPlaceholder, <<" ">>, CorporationW,
                         <<" ","a","n","d"," ">>,
                         ClientPlaceholder, <<" ">>, CorpW, <<".">>>>)
        /\ ~Contains(client_out, OrgPlaceholder)

\* C7 witness: mask_client_info has run on the text with client name Acme.
C7_Witness ==
    /\ op = "mask_client_info"
    /\ text = AcmeText
    /\ client_name = AcmeW
    /\ client_out # text

\* C8 as claimed: with a client name, the result does not contain the name
\* or contains a [CLIENT_NAME] placeholder.
C8_NameGoneOrPlaceholder ==
    op = "mask_client_info" /\ client_name # <<>> =>
        \/ ~Contains(client_out, client_name)
        \/ Contains(client_out, ClientPlaceholder)

\* C8 amended: with a client name, a text that contains the name in any
\* case gives a result with a [CLIENT_NAME] placeholder; a text that does
\* not gives a result that contains the name only if the organization
\* substitution has put [ORGANIZATION] into it.
C8_NameMaskedOrFromOrg ==
    op = "mask_client_info" /\ client_name # <<>> =>
        /\ Contains(Lower(text), Lower(client_name))
              => Contains(client_out, ClientPlaceholder)
        /\ ~Contains(Lower(text), Lower(client_name))
              /\ Contains(client_out, client_name)
              => Contains(client_out, OrgPlaceholder)

\* C8 witness: mask_client_info has replaced a client name that the text
\* holds in another case only.
C8_Witness ==
    /\ op = "mask_client_info"
    /\ client_name # <<>>
    /\ Contains(Lower(text), Lower(client_name))
    /\ ~Contains(text, client_name)
    /\ Contains(client_out, ClientPlaceholder)

-----------------------------------------------------------------------------
(* analyze_iam_policy: inputs and specification *)

\* the line  "key"<sep>"value"
IamLine(key, sep, value) ==
    Concat(<<<<Quote>>, key, <<Quote>>, sep, <<Quote>>, value, <<Quote, "\n">>>>)

IamFrags ==
    { IamLine(EffectW, <<":">>, AllowW),
      IamLine(EffectW, <<" ", ":", " ">>, DenyW),
      IamLine(Lower(EffectW), <<":">>, Lower(AllowW)),
      IamLine(ActionW, <<":">>, <<"s","3",":","G","e","t">>),
      IamLine(ActionW, <<":">>, <<"s","3",":","A","l","l","o","w","A","l","l">>),
      IamLine(ResourceW, <<":">>, <<"*">>),
      IamLine(PrincipalW, <<":">>, <<"D","e","n","y","L","i","s","t">>),
      StatementW \o <<"\n">> }

IamTexts == TextsOf(IamFrags, MaxFrags)

InitIam == text \in IamTexts /\ InitCommon

\* a call of analyze_iam_policy(text)
AnalyzeIamPolicy ==
    /\ op = "none"
    /\ op' = "analyze_iam_policy"
    /\ iam' = analyze_iam_policy(text)
    /\ UNCHANGED <<text, mask_char, client_name, findings, masked_text,
                   masked_items, client_out, fw, ids,
                   remaskVars, apiVars>>

NextIam == AnalyzeIamPolicy

SpecIam == InitIam /\ [][NextIam]_vars

-----------------------------------------------------------------------------
(* Properties of analyze_iam_policy, checked under SpecIam *)

\* C9: found is true exactly when the text holds one of Effect, Action,
\* Resource, Statement, Principal as spelled here; and when found is false
\* the match list and the summary are empty.
C9_FoundIffIndicator ==
    op = "analyze_iam_policy" =>
        /\ iam.found <=>
              \E w \in {EffectW, ActionW, ResourceW, StatementW, PrincipalW} :
                 \E i \in 1..Len(text) :
                    /\ i + Len(w) - 1 <= Len(text)
                    /\ \A k \in 1..Len(w) : text[i + k - 1] = w[k]
        /\ ~iam.found => iam.policies = <<>> /\ iam.summary = <<>>

\* C9 witness: analyze_iam_policy has returned found = false for a text
\* that the effect pattern matches, spelled in lower case.
C9_Witness ==
    /\ op = "analyze_iam_policy"
    /\ ~iam.found
    /\ FindIter(IamPatterns[1], text) # <<>>

\* the values collected for a component
IamValuesOf(component) ==
    UNION {Range(iam.policies[i].values) :
              i \in {j \in DOMAIN iam.policies :
                        iam.policies[j].component = component}}

\* C10 as claimed: when found is true, total_components_found is the number
\* of fields with a match, has_allow_effect says that a collected effect
\* value is Allow and has_deny_effect that one is Deny.
C10_SummaryFromEffects ==
    op = "analyze_iam_policy" /\ iam.found =>
        /\ iam.summary.total_components_found
              = Cardinality({k \in DOMAIN IamPatterns :
                                FindIter(IamPatterns[k], text) # <<>>})
        /\ iam.summary.has_allow_effect <=> AllowW \in IamValuesOf("effect")
        /\ iam.summary.has_deny_effect <=> DenyW \in IamValuesOf("effect")

-----------------------------------------------------------------------------
(* analyze_firewall_rules and analyze_ids_ips_logs: inputs and             *)
(* specification *)

\* the first rule line of fw_text
TestFirewallLine ==
    <<"R","u","l","e"," ","1",":"," ","a","l","l","o","w"," ","t","c","p"," ","p","o","r","t"," ","4","4","3"," ","f","r","o","m"," ","1","0",".","0",".","0",".","0","/","8"," ","t","o"," ","1","9","2",".","1","6","8",".","1",".","1","0","0">>

\* the two lines of ids_text
TestIdsLine1 ==
    <<"2","0","2","4","-","0","1","-","0","1"," ","1","2",":","0","0",":","0","0"," ","[","A","L","E","R","T","]"," ","C","r","i","t","i","c","a","l",":"," ","S","i","g","n","a","t","u","r","e",":"," ","S","Q","L"," ","I","n","j","e","c","t","i","o","n"," ","A","t","t","e","m","p","t">>

TestIdsLine2 == <<"S","r","c",":"," ","1","0",".","0",".","0",".","5","0"," ","D","s","t",":"," ","1","9","2",".","1","6","8",".","1",".","1","0","0">>

\* a line break, the test line, actions and protocols in both cases with and
\* without an indicator word, a word that no pattern matches
FirewallFrags ==
    { <<"\n">>, TestFirewallLine, <<"d","r","o","p"," ","i","c","m","p">>, <<"A","C","C","E","P","T"," ","T","C","P"," ">>, <<"d","e","n","y"," ">>,
      <<"f","i","r","e","w","a","l","l"," ">>, <<"p","o","r","t","s"," ","8","0","-","9","0"," ","u","d","p"," ">> }

\* a line break, the test lines, severities in and out of the breakdown,
\* a second source address
IdsFrags ==
    { <<"\n">>, TestIdsLine1, TestIdsLine2, <<"a","l","e","r","t"," ","H","I","G","H"," ","s","r","c"," ","1","0",".","0",".","0",".","5","0"," ">>,
      <<"i","n","f","o"," ">>, <<"s","o","u","r","c","e",":"," ","1","0",".","0",".","0",".","7"," ","l","o","w"," ">>, <<"m","e","d","i","u","m">> }

SecTexts == TextsOf(FirewallFrags, MaxFrags) \cup TextsOf(IdsFrags, MaxFrags)

InitSec == text \in SecTexts /\ InitCommon

\* a call of analyze_firewall_rules(text)
AnalyzeFirewallRules ==
    /\ op = "none"
    /\ op' = "analyze_firewall_rules"
    /\ \E r \in analyze_firewall_rules(text) : fw' = r
    /\ UNCHANGED <<text, mask_char, client_name, findings, masked_text,
                   masked_items, client_out, iam, ids,
                   remaskVars, apiVars>>

\* a call of analyze_ids_ips_logs(text)
AnalyzeIdsIpsLogs ==
    /\ op = "none"
    /\ op' = "analyze_ids_ips_logs"
    /\ ids' = analyze_ids_ips_logs(text)
    /\ UNCHANGED <<text, mask_char, client_name, findings, masked_text,
                   masked_items, client_out, iam, fw,
                   remaskVars, apiVars>>

NextSec == AnalyzeFirewallRules \/ AnalyzeIdsIpsLogs

SpecSec == InitSec /\ [][NextSec]_vars
-----------------------------------------------------------------------------
(* Properties of analyze_firewall_rules and analyze_ids_ips_logs, checked  *)
(* under SpecSec *)

\* the lines of the newline-split text, numbered from 1, on which one of
\* the patterns matches somewhere
LinesMatching(patterns, t) ==
    LET lines == Split(t, "\n")
    IN  {n \in DOMAIN lines :
            \E k \in DOMAIN patterns : MatchesAnywhere(patterns[k], lines[n]) # {}}

\* C11: when analyze_firewall_rules reports found = true, the rules list
\* has exactly one entry for every line on which at least one of the six
\* field patterns matches and none for any other line; the entries are in
\* line order and each carries the 1-based number of its line.
C11_OneEntryPerMatchingLine ==
    op = "analyze_firewall_rules" /\ fw.found =>
        LET hit == LinesMatching(FirewallPatterns, text)
        IN  /\ Len(fw.rules) = Cardinality(hit)
            /\ \A i \in DOMAIN fw.rules : fw.rules[i].line_number \in hit
            /\ \A i, j \in DOMAIN fw.rules :
                  i < j => fw.rules[i].line_number < fw.rules[j].line_number

\* C11 witness: found = true with a line that has no entry ahead of a line
\* that has one, so that the entry's line number is not its list position.
C11_Witness ==
    /\ op = "analyze_firewall_rules"
    /\ fw.found
    /\ Len(fw.rules) = 1
    /\ fw.rules[1].line_number = 2

\* the number of rule lines whose action, lower-cased, is one of words
RulesWithAction(words) ==
    Cardinality({i \in DOMAIN fw.rules :
                    /\ "action" \in DOMAIN fw.rules[i]
                    /\ Lower(fw.rules[i].action) \in words})

\* C12: when analyze_firewall_rules returns at least one rule line,
\* total_rules is the number of rule lines, allow_rules the number whose
\* action is allow or accept in any case, deny_rules the number whose action
\* is deny, drop or reject in any case, and protocols_used holds each
\* distinct lower-cased protocol exactly once; for the test line the rule
\* has action allow, protocol tcp, port 443, source 10.0.0.0/8 and the
\* counts are 1 and 0.
C12_SummaryCounts ==
    op = "analyze_firewall_rules" /\ fw.rules # <<>> =>
        LET protocols ==
               {Lower(fw.rules[i].protocol) :
                   i \in {j \in DOMAIN fw.rules : "protocol" \in DOMAIN fw.rules[j]}}
        IN  /\ fw.summary.total_rules = Len(fw.rules)
            /\ fw.summary.allow_rules = RulesWithAction({AllowL, AcceptL})
            /\ fw.summary.deny_rules = RulesWithAction({DenyL, DropL, RejectL})
            /\ Range(fw.summary.protocols_used) = protocols
            /\ Len(fw.summary.protocols_used) = Cardinality(protocols)
            /\ text = TestFirewallLine =>
                  /\ fw.found
                  /\ Len(fw.rules) = 1
                  /\ fw.rules[1].action = AllowL
                  /\ fw.rules[1].protocol = <<"t","c","p">>
                  /\ fw.rules[1].port = <<"4","4","3">>
                  /\ fw.rules[1].source_ip = <<"1","0",".","0",".","0",".","0","/","8">>
                  /\ fw.summary.allow_rules = 1
                  /\ fw.summary.deny_rules = 0

\* C12 witness: two rule lines, one of them the test line, whose protocols
\* differ in case only and whose actions, one in upper case, both allow.
C12_Witness ==
    /\ op = "analyze_firewall_rules"
    /\ Len(fw.rules) = 2
    /\ fw.rules[2].content = TestFirewallLine
    /\ \A i \in 1..2 : {"action", "protocol"} \subseteq DOMAIN fw.rules[i]
    /\ fw.rules[1].protocol # fw.rules[2].protocol
    /\ Len(fw.summary.protocols_used) = 1
    /\ fw.rules[1].action = <<"A","C","C","E","P","T">>
    /\ fw.summary.allow_rules = 2

\* C19: in every non-empty summary of analyze_firewall_rules, allow_rules +
\* deny_rules is the number of rule lines that have an action, and so at
\* most total_rules.
C19_ActionsAllCounted ==
    op = "analyze_firewall_rules" /\ fw.summary # <<>> =>
        /\ fw.summary.allow_rules + fw.summary.deny_rules
              = Cardinality({i \in DOMAIN fw.rules : "action" \in DOMAIN fw.rules[i]})
        /\ fw.summary.allow_rules + fw.summary.deny_rules <= fw.summary.total_rules

\* C19 witness: a summary over a rule line with the action drop and a rule
\* line without an action.
C19_Witness ==
    /\ op = "analyze_firewall_rules"
    /\ fw.summary # <<>>
    /\ \E i \in DOMAIN fw.rules :
          "action" \in DOMAIN fw.rules[i] /\ Lower(fw.rules[i].action) = DropL
    /\ \E i \in DOMAIN fw.rules : "action" \notin DOMAIN fw.rules[i]
    /\ fw.summary.deny_rules = 1
    /\ fw.summary.total_rules = 2

TestIdsText == TestIdsLine1 \o <<"\n">> \o TestIdsLine2

\* C13: every alert entry of analyze_ids_ips_logs has a field exactly when
\* the field's pattern matches on the entry's own line, with a value taken
\* from that line; for the two test lines the first entry has severity
\* Critical and no source_ip or dest_ip, and the second entry has both.
C13_LinesIndependent ==
    op = "analyze_ids_ips_logs" =>
        /\ \A i \in DOMAIN ids.alerts :
              LET a == ids.alerts[i]
                  line == Split(text, "\n")[a.line_number]
              IN  \A k \in DOMAIN IdsComponents :
                     IF IdsComponents[k] \in DOMAIN a
                     THEN /\ MatchesAnywhere(IdsPatterns[k], line) # {}
                          /\ Contains(line, a[IdsComponents[k]])
                     ELSE MatchesAnywhere(IdsPatterns[k], line) = {}
        /\ text = TestIdsText =>
              /\ Len(ids.alerts) = 2
              /\ ids.alerts[1].line_number = 1
              /\ ids.alerts[1].severity = <<"C","r","i","t","i","c","a","l">>
              /\ "source_ip" \notin DOMAIN ids.alerts[1]
              /\ "dest_ip" \notin DOMAIN ids.alerts[1]
              /\ ids.alerts[2].line_number = 2
              /\ ids.alerts[2].source_ip = <<"1","0",".","0",".","0",".","5","0">>
              /\ ids.alerts[2].dest_ip = <<"1","9","2",".","1","6","8",".","1",".","1","0","0">>

\* C13 witness: analyze_ids_ips_logs has returned for the two test lines.
C13_Witness ==
    /\ op = "analyze_ids_ips_logs"
    /\ text = TestIdsText
    /\ ids.found
    /\ Len(ids.alerts) = 2

\* the number of alert entries whose severity, lower-cased, is word
AlertsWithSeverity(word) ==
    Cardinality({i \in DOMAIN ids.alerts :
                    /\ "severity" \in DOMAIN ids.alerts[i]
                    /\ Lower(ids.alerts[i].severity) = word})

\* the distinct values of a key among the alert entries
AlertValues(key) ==
    {ids.alerts[i][key] : i \in {j \in DOMAIN ids.alerts : key \in DOMAIN ids.alerts[j]}}

\* C14: when analyze_ids_ips_logs returns at least one alert, total_alerts
\* is the number of entries, the severity breakdown counts the entries whose
\* severity is critical, high, medium or low in any case and no others (so
\* the four counts sum to at most total_alerts), and unique_sources and
\* unique_destinations are the numbers of distinct source_ip and dest_ip
\* values.
C14_IdsSummaryCounts ==
    op = "analyze_ids_ips_logs" /\ ids.alerts # <<>> =>
        LET b == ids.summary.severity_breakdown
        IN  /\ ids.summary.total_alerts = Len(ids.alerts)
            /\ DOMAIN b = {"critical", "high", "medium", "low"}
            /\ b.critical = AlertsWithSeverity(<<"c","r","i","t","i","c","a","l">>)
            /\ b.high = AlertsWithSeverity(<<"h","i","g","h">>)
            /\ b.medium = AlertsWithSeverity(<<"m","e","d","i","u","m">>)
            /\ b.low = AlertsWithSeverity(<<"l","o","w">>)
            /\ b.critical + b.high + b.medium + b.low <= ids.summary.total_alerts
            /\ ids.summary.unique_sources = Cardinality(AlertValues("source_ip"))
            /\ ids.summary.unique_destinations = Cardinality(AlertValues("dest_ip"))

\* C14 witness: two alerts with the same source address, one of severity
\* HIGH in upper case and one without a severity.
C14_Witness ==
    /\ op = "analyze_ids_ips_logs"
    /\ Len(ids.alerts) = 2
    /\ "severity" \in DOMAIN ids.alerts[1]
    /\ \A i \in 1..2 : "source_ip" \in DOMAIN ids.alerts[i]
    /\ ids.alerts[1].severity = <<"H","I","G","H">>
    /\ "severity" \notin DOMAIN ids.alerts[2]
    /\ ids.alerts[1].source_ip = ids.alerts[2].source_ip
    /\ ids.summary.unique_sources = 1
    /\ ids.summary.severity_breakdown.high = 1

\* C20: a call of analyze_firewall_rules or analyze_ids_ips_logs returns a
\* result with found, a list and a summary for every text; the list is
\* non-empty only if found is true, and the summary is non-empty exactly
\* when the list is; found = false comes with an empty list and an empty
\* summary.
C20_EmptyUnlessFound ==
    /\ op = "analyze_firewall_rules" =>
          /\ DOMAIN fw = {"found", "rules", "summary"}
          /\ fw.found \in BOOLEAN
          /\ fw.rules # <<>> => fw.found
          /\ fw.summary # <<>> <=> fw.rules # <<>>
          /\ ~fw.found => fw.rules = <<>> /\ fw.summary = <<>>
    /\ op = "analyze_ids_ips_logs" =>
          /\ DOMAIN ids = {"found", "alerts", "summary"}
          /\ ids.found \in BOOLEAN
          /\ ids.alerts # <<>> => ids.found
          /\ ids.summary # <<>> <=> ids.alerts # <<>>
          /\ ~ids.found => ids.alerts = <<>> /\ ids.summary = <<>>

\* C20 witness: analyze_ids_ips_logs has returned found = false for a text
\* without an indicator word on which a field pattern matches.
C20_Witness ==
    /\ op = "analyze_ids_ips_logs"
    /\ ~ids.found
    /\ text # <<>>
    /\ LinesMatching(IdsPatterns, text) # {}
-----------------------------------------------------------------------------
(* The view functions of src/src/api/app.py.  A view function returns      *)
(* either jsonify(body), a response object, or the pair jsonify(body),     *)
(* status.  The files are text files and files of an unsupported format.   *)

\* return jsonify(body)
Jsonify(body) == [kind |-> "response", json |-> body]

\* return jsonify(body), status
JsonifyStatus(body, status) == [kind |-> "tuple", json |-> body, status |-> status]

\* the view function did not return: exception is the error raised in it
Raised(exception) == [kind |-> "raised", exception |-> exception]

\* not data or 'filename' not in data, for data = request.get_json()
NoFilename(data) == DOMAIN data = {} \/ "filename" \notin DOMAIN data

\* os.path.splitext(name): the name up to its last dot, and the rest
SplitExt(name) ==
    LET dots == {i \in DOMAIN name : name[i] = "." /\ i > 1}
        cut == IF dots = {} THEN Len(name) + 1
               ELSE CHOOSE i \in dots : \A j \in dots : j <= i
    IN  [root |-> SubSeq(name, 1, cut - 1), ext |-> SubSeq(name, cut, Len(name))]

\* TextExtractor.extract_text for a file with the content given: a text
\* file is read and stripped, a file of no supported format is refused
extract_text(file_path, content) ==
    LET ext == SplitExt(Lower(file_path)).ext
    IN  IF ext = <<".","t","x","t">>
        THEN [file_path |-> file_path, file_type |-> ext,
              text |-> Strip(content), success |-> TRUE]
        ELSE [file_path |-> file_path, file_type |-> ext,
              text |-> <<"U","n","s","u","p","p","o","r","t","e","d"," ","f","i","l","e"," ","f","o","r","m","a","t",":"," ">> \o ext, success |-> FALSE]

\* the lengths of the previews of cleanse_file and analyze_file
CleanedPreviewLength == 500
ExtractedPreviewLength == 1000

\* t[:n] + ('...' if len(t) > n else '')
Preview(t, n) == Slice(t, 0, n) \o (IF Len(t) > n THEN <<".",".",".">> ELSE <<>>)

\* the folder with the file name holding content
WithFile(folder, name, content) ==
    [n \in DOMAIN folder \cup {name} |-> IF n = name THEN content ELSE folder[n]]

\* str(e) of the error that open(path, 'w') raises when it cannot write
WriteError == <<"[","E","r","r","n","o"," ","1","3","]"," ","P","e","r","m","i","s","s","i","o","n"," ","d","e","n","i","e","d">>

\* cleanse_file: what it returns and OUTPUT_FOLDER after it
cleanse_file(data, up, out, w) ==
    IF NoFilename(data)
    THEN [ret |-> JsonifyStatus([error |-> <<"N","o"," ","f","i","l","e","n","a","m","e"," ","p","r","o","v","i","d","e","d">>], 400),
          output |-> out]
    ELSE IF data.filename \notin DOMAIN up
    THEN [ret |-> JsonifyStatus([error |-> <<"F","i","l","e"," ","n","o","t"," ","f","o","u","n","d">>], 404),
          output |-> out]
    ELSE LET filename == data.filename
             extraction_result == extract_text(filename, up[filename])
             t == extraction_result.text
             name == Get(data, "client_name", <<>>)
             masked == mask_pii(t, DefaultMaskChar)
             cleaned == IF name # <<>> THEN mask_client_info(masked.text, name)
                        ELSE masked.text
             output_file == <<"c","l","e","a","n","e","d","_">> \o SplitExt(filename).root \o <<".","t","x","t">>
         IN  IF ~extraction_result.success
             THEN [ret |-> JsonifyStatus([error |-> t], 500), output |-> out]
             ELSE IF ~w
             THEN [ret |-> JsonifyStatus([error |-> WriteError], 500),
                   output |-> out]
             ELSE [ret |-> Jsonify(
                      [success |-> TRUE,
                       original_text_length |-> Len(t),
                       cleaned_text_length |-> Len(cleaned),
                       masked_items_count |-> Len(masked.items),
                       masked_items |-> masked.items,
                       cleaned_text |-> Preview(cleaned, CleanedPreviewLength),
                       output_file |-> output_file]),
                   output |-> WithFile(out, output_file, cleaned)]

\* SecurityAnalyzer.analyze: the results it can return
analyze(t) ==
    {[iam_policies |-> analyze_iam_policy(t),
      firewall_rules |-> firewall_rules,
      ids_ips_logs |-> analyze_ids_ips_logs(t),
      text_length |-> Len(t),
      line_count |-> Len(Split(t, "\n"))] :
        firewall_rules \in analyze_firewall_rules(t)}

\* findings_by_type: the number of findings of each type that has one
FindingsByType(pii_findings) ==
    [type \in {pii_findings[i].type : i \in DOMAIN pii_findings} |->
        Cardinality({i \in DOMAIN pii_findings : pii_findings[i].type = type})]

\* analyze_file: what it can return, with OUTPUT_FOLDER after it
analyze_file(data, up, out, w) ==
    IF NoFilename(data)
    THEN {[ret |-> JsonifyStatus([error |-> <<"N","o"," ","f","i","l","e","n","a","m","e"," ","p","r","o","v","i","d","e","d">>], 400),
           output |-> out]}
    ELSE IF data.filename \notin DOMAIN up
    THEN {[ret |-> JsonifyStatus([error |-> <<"F","i","l","e"," ","n","o","t"," ","f","o","u","n","d">>], 404),
           output |-> out]}
    ELSE LET filename == data.filename
             extraction_result == extract_text(filename, up[filename])
             t == extraction_result.text
             pii_findings == detect_pii(t)
             report(security_analysis) ==
                [file_info |->
                    [filename |-> filename,
                     file_type |-> extraction_result.file_type,
                     text_length |-> Len(t),
                     line_count |-> Cardinality({i \in DOMAIN t : t[i] = "\n"}) + 1],
                 extraction |->
                    [success |-> extraction_result.success,
                     extracted_text_preview |-> Preview(t, ExtractedPreviewLength)],
                 pii_detection |->
                    [total_pii_found |-> Len(pii_findings),
                     findings_by_type |-> FindingsByType(pii_findings)],
                 security_analysis |-> security_analysis]
             report_file == <<"a","n","a","l","y","s","i","s","_">> \o SplitExt(filename).root \o <<".","j","s","o","n">>
         IN  IF ~extraction_result.success
             THEN {[ret |-> JsonifyStatus([error |-> t], 500), output |-> out]}
             ELSE IF ~w
             THEN {[ret |-> JsonifyStatus([error |-> WriteError], 500),
                    output |-> out]}
             ELSE {[ret |-> Jsonify([success |-> TRUE,
                                     report |-> report(security_analysis),
                                     report_file |-> report_file]),
                    output |-> WithFile(out, report_file, report(security_analysis))] :
                      security_analysis \in analyze(t)}

\* one view function run by the request and what it returned
Call(view, ret) == [view |-> view, ret |-> ret]

\* response[1], the status of a pair; a response object has no items and
\* indexing it raises TypeError, given here as <<>>
StatusOf(ret) == IF ret.kind = "tuple" THEN <<ret.status>> ELSE <<>>

\* the rest of process_file after cleanse_file has returned c with status
\* 200: the results it can come to with the calls it has made
ProcessAnalyze(data, up, w, c) ==
    {LET calls2 == <<Call("cleanse_file", c.ret), Call("analyze_file", a.ret)>>
     IN  IF StatusOf(a.ret) = <<>>
         THEN [ret |-> Raised("TypeError"), output |-> a.output, calls |-> calls2]
         ELSE IF a.ret.status # 200
         THEN [ret |-> a.ret, output |-> a.output, calls |-> calls2]
         ELSE [ret |-> Jsonify([success |-> TRUE, cleansing |-> c.ret.json,
                                analysis |-> a.ret.json]),
               output |-> a.output, calls |-> calls2] :
        a \in analyze_file(data, up, c.output, w)}

\* the rest of process_file after cleanse_file has returned c
ProcessCleansed(data, up, w, c) ==
    IF StatusOf(c.ret) = <<>>
    THEN {[ret |-> Raised("TypeError"), output |-> c.output,
           calls |-> <<Call("cleanse_file", c.ret)>>]}
    ELSE IF c.ret.status # 200
    THEN {[ret |-> c.ret, output |-> c.output,
           calls |-> <<Call("cleanse_file", c.ret)>>]}
    ELSE ProcessAnalyze(data, up, w, c)

\* process_file: the results it can come to, with OUTPUT_FOLDER after it
\* and the view functions it has called
process_file(data, up, out, w) ==
    IF NoFilename(data)
    THEN {[ret |-> JsonifyStatus([error |-> <<"N","o"," ","f","i","l","e","n","a","m","e"," ","p","r","o","v","i","d","e","d">>], 400),
           output |-> out, calls |-> <<>>]}
    ELSE UNION {ProcessCleansed(data, up, w, c) :
                   c \in {cleanse_file(data, up, out, w)}}

-----------------------------------------------------------------------------
(* The API: inputs and specification *)

ATxt == <<"a",".","t","x","t">>
NotesTxt == <<"N","o","t","e","s",".","T","X","T">>
BDat == <<"b",".","d","a","t">>

\* a text with an e-mail address, a date and the client's name; the rule
\* line of the tests; white space only
FileTexts ==
    { <<"A","c","m","e"," ","C","o","r","p"," ","a","@","b",".","c","c"," ","1","/","2","/","3","4","\n">>, TestFirewallLine, <<" ","\n">> }

\* the states of UPLOAD_FOLDER: a.txt with one of the texts or missing,
\* Notes.TXT and b.dat with a text or missing
Uploads ==
    {up \in UNION {[names -> FileTexts] : names \in SUBSET {ATxt, NotesTxt, BDat}} :
        \A n \in DOMAIN up \ {ATxt} : up[n] = <<" ","\n">>}

\* the JSON bodies: none, a client name only, a file name, both
Requests ==
    {<<>>, [client_name |-> AcmeW]}
    \cup {[filename |-> n] : n \in {ATxt, NotesTxt, BDat}}
    \cup {[filename |-> n, client_name |-> c] :
             n \in {ATxt, NotesTxt, BDat}, c \in {<<>>, AcmeW}}

NoFiles == <<>>

InitApi ==
    /\ InitResults
    /\ text = NoResult
    /\ request \in Requests
    /\ upload \in Uploads
    /\ writable \in BOOLEAN
    /\ output = NoFiles
    /\ calls = <<>>
    /\ response = NoResult

\* POST /api/cleanse
CleanseFile ==
    /\ op = "none"
    /\ op' = "cleanse_file"
    /\ \E r \in {cleanse_file(request, upload, output, writable)} :
          /\ response' = r.ret
          /\ output' = r.output
          /\ calls' = <<Call("cleanse_file", r.ret)>>
    /\ UNCHANGED <<text, mask_char, client_name, findings, masked_text,
                   masked_items, client_out, iam, fw, ids, remaskVars,
                   request, upload, writable>>

\* POST /api/analyze
AnalyzeFile ==
    /\ op = "none"
    /\ op' = "analyze_file"
    /\ \E r \in analyze_file(request, upload, output, writable) :
          /\ response' = r.ret
          /\ output' = r.output
          /\ calls' = <<Call("analyze_file", r.ret)>>
    /\ UNCHANGED <<text, mask_char, client_name, findings, masked_text,
                   masked_items, client_out, iam, fw, ids, remaskVars,
                   request, upload, writable>>

\* POST /api/process
ProcessFile ==
    /\ op = "none"
    /\ op' = "process_file"
    /\ \E r \in process_file(request, upload, output, writable) :
          /\ response' = r.ret
          /\ output' = r.output
          /\ calls' = r.calls
    /\ UNCHANGED <<text, mask_char, client_name, findings, masked_text,
                   masked_items, client_out, iam, fw, ids, remaskVars,
                   request, upload, writable>>

NextApi == CleanseFile \/ AnalyzeFile \/ ProcessFile

SpecApi == InitApi /\ [][NextApi]_vars

-----------------------------------------------------------------------------
(* Property of process_file, checked under SpecApi *)

\* the view function returned a success
Succeeded(ret) ==
    /\ ret.kind \in {"response", "tuple"}
    /\ ret.kind = "tuple" => ret.status = 200
    /\ "success" \in DOMAIN ret.json
    /\ ret.json.success

\* C16 as claimed: when process_file has run its cleanse step, then if the
\* step succeeded the analyze step has run after it, and with both steps a
\* success the response is a success that carries the cleansing and the
\* analysis results; if the cleanse step failed, its error response is the
\* response and the analyze step has not run.
C16_CleanseThenAnalyze ==
    op = "process_file" /\ calls # <<>> =>
        /\ calls[1].view = "cleanse_file"
        /\ IF Succeeded(calls[1].ret)
           THEN /\ Len(calls) = 2
                /\ calls[2].view = "analyze_file"
                /\ Succeeded(calls[2].ret) =>
                      /\ Succeeded(response)
                      /\ response.json.cleansing = calls[1].ret.json
                      /\ response.json.analysis = calls[2].ret.json
           ELSE /\ Len(calls) = 1
                /\ response = calls[1].ret
=============================================================================
